---------------------------- MODULE Spec2Model ----------------------------
(***************************************************************************)
(* Thesyn: the AI orchestration layer (services/geminiService.ts) and the  *)
(* two views that drive it (ChatView, AnalysisDashboard).                  *)
(*                                                                         *)
(* Three specifications share this module:                                 *)
(*   Spec        one call of a service function, with retryOperation       *)
(*   SpecChat    the chat view: handleSubmit and sendChatMessage           *)
(*   SpecSearch  the dashboard: handleSearch and searchRelatedTopics       *)
(*                                                                         *)
(* JavaScript strings are sequences of one-character strings, so that      *)
(* includes, trim, substring and concatenation are computed, not assumed.  *)
(***************************************************************************)
EXTENDS Integers, Sequences, FiniteSets

VARIABLES
    \* ---- one service call (Spec) ----
    fn,          \* the function under execution
    pc,          \* "start", "calling", "waiting", "returned", "raised"
    retries,     \* retries argument of the current retryOperation frame
    delay,       \* delay argument of the current retryOperation frame
    retries0,    \* retries argument of the outermost frame
    delay0,      \* delay argument of the outermost frame
    errs,        \* errors caught so far, one per failed invocation
    starts,      \* clock reading at each invocation of the remote operation
    waits,       \* setTimeout calls made so far: [ms, from]
    now,         \* clock of the service call, in ms
    outcome,     \* what the function gave its caller
    arg,         \* the text argument of the function (speech text, search query)
    sent,        \* the text transmitted with each remote invocation
    replies,     \* the reply received to each remote invocation
    \* ---- chat view (SpecChat) ----
    context,     \* DocumentContext prop of ChatView
    messages,    \* useState<ChatMessage[]>
    input,       \* useState('') of the chat input
    isLoading,   \* useState(false)
    clock,       \* Date.now()
    outbound,    \* chat requests issued so far, with their outcome
    \* ---- dashboard search (SpecSearch) ----
    searchQuery,    \* useState('')
    searchResults,  \* useState<... | null>(null)
    isSearching,    \* useState(false)
    searches,       \* handleSearch invocations so far
    \* ---- App (SpecApp) ----
    isProcessing,     \* useState(false)
    analysisResult,   \* useState<AnalysisResult | null>(null)
    documentContext,  \* useState<DocumentContext | null>(null)
    appPc,            \* "idle", "reading", "analyzing": where handleAnalyze is
    appLog,           \* handleAnalyze invocations so far
    \* ---- ChatView, voice input (SpecVoice) ----
    mounted,          \* the ChatView is mounted
    isRecording,      \* useState(false)
    isTranscribing,   \* useState(false)
    toast,            \* useState(null): the message of the toast, or NoToast
    mediaRecorderRef, \* useRef(null): 0, or the session of the recorder
    audioChunksRef,   \* useRef([]): chunks, each named by its session
    sessions,         \* handleStartRecording invocations so far
    \* ---- ChatView and dashboard, speech playback (SpecPlay) ----
    playingMessageId, \* useState(null): NoMessage, or the id of a message
    currentSourceRef, \* useRef(null): 0, or the play of the source
    audioContextRef,  \* useRef(null): "none", "open", "closed"
    isPlayingAudio,   \* AnalysisDashboard: useState(false)
    summaryToast,     \* AnalysisDashboard: the message of its toast, or NoToast
    plays,            \* generateSpeech calls of the play handlers so far
    \* ---- the document in the two requests (SpecFraming) ----
    docContext,       \* the DocumentContext handed to both service functions
    analysisParts,    \* parts of the analyzeDocument request, <<>> before it
    chatHistory       \* fullHistory of the sendChatMessage request, <<>> before it

svcVars == <<fn, pc, retries, delay, retries0, delay0, errs, starts, waits, now, outcome,
             arg, sent, replies>>

chatVars == <<context, messages, input, isLoading, clock, outbound>>

searchVars == <<searchQuery, searchResults, isSearching, searches>>

appVars == <<isProcessing, analysisResult, documentContext, appPc, appLog>>

voiceVars == <<mounted, isRecording, isTranscribing, toast, mediaRecorderRef,
               audioChunksRef, sessions>>

playVars == <<playingMessageId, currentSourceRef, audioContextRef, isPlayingAudio,
              summaryToast, plays>>

frameVars == <<docContext, analysisParts, chatHistory>>

vars == <<svcVars, chatVars, searchVars, appVars, voiceVars, playVars, frameVars>>

notFrame == <<svcVars, chatVars, searchVars, appVars, voiceVars, playVars>>

notSvc == <<frameVars, chatVars, searchVars, appVars, voiceVars, playVars>>

notChat == <<frameVars, svcVars, searchVars, appVars, voiceVars, playVars>>

notSearch == <<frameVars, svcVars, chatVars, appVars, voiceVars, playVars>>

notApp == <<frameVars, svcVars, chatVars, searchVars, voiceVars, playVars>>

\* the voice actions write the chat input, and nothing else of the chat
notVoice == <<frameVars, svcVars, searchVars, appVars, context, messages, isLoading, clock, outbound,
              playVars>>

\* the play actions write mounted and toast, and nothing else of the voice input
notPlay == <<frameVars, svcVars, searchVars, appVars, isRecording, isTranscribing, mediaRecorderRef,
             audioChunksRef, sessions>>

---------------------------------------------------------------------------
(* Bounds of the model *)

\* largest retry budget handed to retryOperation
MaxRetries == 3

\* a timer fires at its deadline or up to MaxLag ms late
MaxLag == 1

\* chat turns submitted in one life of the chat view
MaxTurns == 2

\* Date.now() advances at most this far past its first reading
MaxClock == 2

\* searches submitted in one life of the dashboard
MaxSearches == 2

\* analyses requested in one life of the App
MaxAnalyses == 2

\* microphone requests in one life of the chat view
MaxSessions == 2

\* play requests in one life of the dashboard
MaxPlays == 3

---------------------------------------------------------------------------
(* Strings *)

Marker500 ==
    <<"5","0","0">>

MarkerInternal ==
    <<"I","n","t","e","r","n","a","l"," ","e","r","r","o","r">>

MsgUnavailable ==
    <<"U","N","A","V","A","I","L","A","B","L","E">>

MsgTimeout1500 ==
    <<"a","f","t","e","r"," ","1","5","0","0","m","s">>

MsgLowerInternal ==
    <<"i","n","t","e","r","n","a","l"," ","e","r","r","o","r">>

MsgBadRequest ==
    <<"4","0","0"," ","b","a","d">>

MsgBadGateway ==
    <<"B","a","d"," ","G","a","t","e","w","a","y">>

NoResponseGenerated ==
    <<"N","o"," ","r","e","s","p","o","n","s","e"," ","g","e","n","e","r","a","t","e","d">>

NoAudioData ==
    <<"N","o"," ","a","u","d","i","o"," ","d","a","t","a"," ","r","e","t","u","r","n","e","d">>

\* String.prototype.includes
Includes(s, t) ==
    \E i \in 1..(Len(s) - Len(t) + 1) : SubSeq(s, i, i + Len(t) - 1) = t

IsSpace(c) ==
    c \in {" ", "\n", "\t"}

RECURSIVE TrimStart(_)
TrimStart(s) ==
    IF s # <<>> /\ IsSpace(Head(s)) THEN TrimStart(Tail(s)) ELSE s

RECURSIVE TrimEnd(_)
TrimEnd(s) ==
    IF s # <<>> /\ IsSpace(s[Len(s)]) THEN TrimEnd(SubSeq(s, 1, Len(s) - 1)) ELSE s

\* String.prototype.trim
Trim(s) ==
    TrimEnd(TrimStart(s))

\* String.prototype.substring(0, n)
Substring0(s, n) ==
    SubSeq(s, 1, IF Len(s) < n THEN Len(s) ELSE n)

RECURSIVE Pow2(_)
Pow2(n) ==
    IF n <= 0 THEN 1 ELSE 2 * Pow2(n - 1)

---------------------------------------------------------------------------
(* Errors a remote call can reject with.  An error is an object with an   *)
(* optional status and an optional message.                               *)

Err(hasStatus, status, hasMessage, message) ==
    [hasStatus |-> hasStatus, status |-> status,
     hasMessage |-> hasMessage, message |-> message]

\* ApiError of the SDK
ApiError(status, message) ==
    Err(TRUE, status, TRUE, message)

\* new Error(message)
PlainError(message) ==
    Err(FALSE, 0, TRUE, message)

ErrorValues ==
    { ApiError(500, Marker500),
      ApiError(503, MsgUnavailable),
      PlainError(MsgTimeout1500),
      PlainError(MarkerInternal),
      ApiError(400, MsgBadRequest),
      ApiError(502, MsgBadGateway),
      PlainError(MsgLowerInternal),
      Err(FALSE, 0, FALSE, <<>>) }

IsRetryableAny5xx(error) ==
    \/ error.hasStatus /\ error.status >= 500
    \/ error.hasMessage /\ Includes(error.message, Marker500)
    \/ error.hasMessage /\ Includes(error.message, MarkerInternal)

\* isRetryable of retryOperation
IsRetryable(error) ==
    \/ error.hasStatus /\ error.status = 500
    \/ error.hasStatus /\ error.status = 503
    \/ error.hasMessage /\ Includes(error.message, Marker500)
    \/ error.hasMessage /\ Includes(error.message, MarkerInternal)

BudgetExhaustedTooEarly(r) ==
    r <= 1

\* if (retries <= 0) throw error
BudgetExhausted(r) ==
    r <= 0

NextDelayConstant(d) ==
    d

\* delay * 2
NextDelay(d) ==
    d * 2

ThrownFirst(caught) ==
    caught[1]

\* the error a frame of retryOperation throws: the one it caught itself
Thrown(caught) ==
    caught[Len(caught)]

DefaultRetries == 3

DefaultDelay == 1000


---------------------------------------------------------------------------
(* Remote replies and what each service function makes of them *)

Value(v) ==
    [kind |-> "value", val |-> v]

Raise(e) ==
    [kind |-> "error", err |-> e]

NoOutcome ==
    [kind |-> "none"]

Rejection(e) ==
    [kind |-> "error", err |-> e]

Response(text, chunks, audio) ==
    [kind |-> "response", text |-> text, chunks |-> chunks, audio |-> audio]

JsonObject ==
    <<"{","}">>

JsonNumber500 ==
    <<"5","0","0">>

NotJson ==
    <<"o","o","p","s">>

NotJson500 ==
    <<"n","o"," ","5","0","0">>

Digits ==
    {"0","1","2","3","4","5","6","7","8","9"}

\* JSON.parse accepts the text: the part of the JSON grammar the replies
\* of the model use (an empty object, an integer literal)
IsJSON(text) ==
    LET t == Trim(text)
    IN  \/ t = JsonObject
        \/ /\ t # <<>>
           /\ \A i \in 1..Len(t) : t[i] \in Digits
           /\ (Len(t) > 1 => t[1] # "0")

SyntaxErrorQuoting(text) ==
    <<"U","n","e","x","p","e","c","t","e","d"," ","t","o","k","e","n",","," ","\"">>
        \o text \o <<"\""," ","i","s"," ","n","o","t"," ","v","a","l","i","d"," ","J","S","O","N">>

SyntaxErrorPlain ==
    <<"J","S","O","N"," ","P","a","r","s","e"," ","e","r","r","o","r">>

\* JSON.parse(text): the value, or a SyntaxError whose message is the
\* engine's (it quotes the offending text or it does not)
JSONParse(text) ==
    IF IsJSON(text)
    THEN { Value([json |-> Trim(text)]) }
    ELSE { Raise(PlainError(SyntaxErrorQuoting(text))), Raise(PlainError(SyntaxErrorPlain)) }

\* generateOp of analyzeDocument
GenerateOp(reply) ==
    IF reply.kind = "error" THEN { Raise(reply.err) }
    ELSE IF reply.text # <<>> THEN JSONParse(reply.text)
    ELSE { Raise(PlainError(NoResponseGenerated)) }

\* an arbitrary wrapped operation: it resolves or it rejects
AnyOp(reply) ==
    IF reply.kind = "error" THEN { Raise(reply.err) } ELSE { Value(reply.text) }

SearchPrefix ==
    <<"F","i","n","d"," ","r","e","c","e","n","t"," ","i","n","f","o","r","m","a","t","i","o","n"," ","r","e","l","a","t","e","d"," ","t","o",":"," ">>

NoResultsFound ==
    <<"N","o"," ","r","e","s","u","l","t","s"," ","f","o","u","n","d",".">>

SearchUnavailable ==
    <<"S","e","a","r","c","h"," ","c","u","r","r","e","n","t","l","y"," ","u","n","a","v","a","i","l","a","b","l","e",".">>

\* a grounding chunk: web may be absent, and so may its title and its uri
Chunk(hasWeb, hasTitle, title, hasUri, uri) ==
    [hasWeb |-> hasWeb, hasTitle |-> hasTitle, title |-> title, hasUri |-> hasUri, uri |-> uri]

\* chunks.forEach(chunk => { if (chunk.web) sources.push({title, uri}) })
RECURSIVE Sources(_)
Sources(chunks) ==
    IF chunks = <<>> THEN <<>>
    ELSE LET c == Head(chunks)
         IN  (IF c.hasWeb
              THEN << [hasTitle |-> c.hasTitle, title |-> c.title,
                       hasUri |-> c.hasUri, uri |-> c.uri] >>
              ELSE <<>>) \o Sources(Tail(chunks))

SearchCatchRethrows(e) ==
    Raise(e)

\* catch (error) of searchRelatedTopics
SearchCatch(e) ==
    Value([text |-> SearchUnavailable, sources |-> <<>>])

\* searchRelatedTopics, from the reply of its remote call on
SearchRelatedTopics(reply) ==
    IF reply.kind = "error" THEN SearchCatch(reply.err)
    ELSE Value([text |-> IF reply.text # <<>> THEN reply.text ELSE NoResultsFound,
                sources |-> Sources(reply.chunks)])

\* generateSpeech, from the reply of its remote call on; the audio of a
\* reply is modelled by the bytes its base64 text stands for
GenerateSpeech(reply) ==
    IF reply.kind = "error" THEN Raise(reply.err)
    ELSE IF reply.audio = <<>> THEN Raise(PlainError(NoAudioData))
    ELSE Value(reply.audio)

\* transcribeUserAudio, from the reply of its remote call on
TranscribeUserAudio(reply) ==
    IF reply.kind = "error" THEN Raise(reply.err)
    ELSE Value(reply.text)

SomeText ==
    <<"h","i">>

WebChunk ==
    Chunk(TRUE, TRUE, <<"t">>, TRUE, <<"u">>)

\* { web: { uri } }
UntitledChunk ==
    Chunk(TRUE, FALSE, <<>>, TRUE, <<"v">>)

\* { web: { title } }
NoUriChunk ==
    Chunk(TRUE, TRUE, <<"w">>, FALSE, <<>>)

ErrorReplies ==
    { Rejection(e) : e \in ErrorValues }

\* the replies the remote capability can give to a call of fn
RemoteReplies(f) ==
    ErrorReplies \cup
    CASE f = "analyzeDocument" ->
             { Response(t, <<>>, <<>>) : t \in {<<>>, JsonObject, JsonNumber500, NotJson, NotJson500} }
      [] f = "retryOperation" ->
             { Response(SomeText, <<>>, <<>>) }
      [] f = "searchRelatedTopics" ->
             { Response(t, c, <<>>) : t \in {<<>>, SomeText},
                                      c \in {<<>>, <<WebChunk>>,
                                             <<Chunk(FALSE, FALSE, <<>>, FALSE, <<>>), WebChunk>>,
                                             <<UntitledChunk, WebChunk, NoUriChunk>>} }
      [] f = "generateSpeech" ->
             { Response(<<>>, <<>>, a) : a \in {<<>>, <<0, 255>>} }
      [] f = "transcribeUserAudio" ->
             { Response(t, <<>>, <<>>) : t \in {<<>>, SomeText, <<" ">>} }


---------------------------------------------------------------------------
(* Spec: one call of a service function *)

RetriedFns ==
    {"retryOperation", "analyzeDocument"}

DirectFns ==
    {"searchRelatedTopics", "generateSpeech", "transcribeUserAudio"}

Fns ==
    RetriedFns \cup DirectFns

Delays ==
    {DefaultDelay, 250}

\* the operation retryOperation wraps
Operation(f, reply) ==
    IF f = "analyzeDocument" THEN GenerateOp(reply) ELSE AnyOp(reply)

\* the functions that issue their remote call themselves
Direct(f, reply) ==
    CASE f = "searchRelatedTopics" -> SearchRelatedTopics(reply)
      [] f = "generateSpeech" -> GenerateSpeech(reply)
      [] f = "transcribeUserAudio" -> TranscribeUserAudio(reply)

\* text.substring(0, 400)
SpeechLimit == 400

\* a text of n characters
TextOfLength(n) ==
    [i \in 1..n |-> <<"a","b","c">>[(i % 3) + 1]]

\* how far past the limit the longest speech text goes
MaxExtra == 2

SpeechTexts ==
    { TextOfLength(n) : n \in {0, 2, SpeechLimit - 1, SpeechLimit} \cup
                              { SpeechLimit + k : k \in 1..MaxExtra } }

\* the text arguments a call of f is run with
Args(f) ==
    IF f = "generateSpeech" THEN SpeechTexts
    ELSE IF f = "searchRelatedTopics" THEN { <<"a">> }
    ELSE { <<>> }

SpeechPayloadWhole(text) ==
    text

\* contents of generateSpeech: text.substring(0, 400)
SpeechPayload(text) ==
    Substring0(text, SpeechLimit)

\* the text part of the request a call of f transmits; the document parts
\* of analyzeDocument and the audio of transcribeUserAudio are not text
\* arguments of this model
Payload(f, a) ==
    IF f = "generateSpeech" THEN SpeechPayload(a)
    ELSE IF f = "searchRelatedTopics" THEN SearchPrefix \o a
    ELSE a

SvcIdle ==
    /\ fn = "none"
    /\ pc = "start"
    /\ retries = 0
    /\ delay = 0
    /\ retries0 = 0
    /\ delay0 = 0
    /\ errs = <<>>
    /\ starts = <<>>
    /\ waits = <<>>
    /\ now = 0
    /\ outcome = NoOutcome
    /\ arg = <<>>
    /\ sent = <<>>
    /\ replies = <<>>

\* analyzeDocument calls retryOperation(generateOp) with the default
\* arguments; retryOperation itself is also run on its own with other ones
SvcInit ==
    /\ fn \in Fns
    /\ retries0 \in (IF fn = "retryOperation" THEN 0..MaxRetries ELSE {DefaultRetries})
    /\ delay0 \in (IF fn = "retryOperation" THEN Delays ELSE {DefaultDelay})
    /\ retries = retries0
    /\ delay = delay0
    /\ pc = "start"
    /\ errs = <<>>
    /\ starts = <<>>
    /\ waits = <<>>
    /\ now = 0
    /\ outcome = NoOutcome
    /\ arg \in Args(fn)
    /\ sent = <<>>
    /\ replies = <<>>

\* retryOperation entered: try { return await operation() }
RetryOperation ==
    /\ pc = "start"
    /\ fn \in RetriedFns
    /\ pc' = "calling"
    /\ starts' = Append(starts, now)
    /\ sent' = Append(sent, Payload(fn, arg))
    /\ UNCHANGED <<fn, retries, delay, retries0, delay0, errs, waits, now, outcome, arg, replies>>
    /\ UNCHANGED notSvc

\* the awaited operation resolves: retryOperation returns its value
OperationResolves ==
    /\ pc = "calling"
    /\ fn \in RetriedFns
    /\ \E reply \in RemoteReplies(fn) : \E o \in Operation(fn, reply) :
          /\ o.kind = "value"
          /\ outcome' = o
          /\ replies' = Append(replies, reply)
    /\ pc' = "returned"
    /\ UNCHANGED <<fn, retries, delay, retries0, delay0, errs, starts, waits, now, arg, sent>>
    /\ UNCHANGED notSvc

\* the awaited operation rejects: the catch block of retryOperation
OperationRejects ==
    /\ pc = "calling"
    /\ fn \in RetriedFns
    /\ \E reply \in RemoteReplies(fn) : \E o \in Operation(fn, reply) :
          /\ o.kind = "error"
          /\ errs' = Append(errs, o.err)
          /\ replies' = Append(replies, reply)
          /\ IF BudgetExhausted(retries)
             THEN /\ pc' = "raised"
                  /\ outcome' = Raise(Thrown(errs'))
                  /\ waits' = waits
             ELSE IF IsRetryable(o.err)
             THEN /\ pc' = "waiting"
                  /\ waits' = Append(waits, [ms |-> delay, from |-> now])
                  /\ outcome' = outcome
             ELSE /\ pc' = "raised"
                  /\ outcome' = Raise(Thrown(errs'))
                  /\ waits' = waits
    /\ UNCHANGED <<fn, retries, delay, retries0, delay0, starts, now, arg, sent>>
    /\ UNCHANGED notSvc

BackoffNeverElapses ==
    /\ pc = "waiting"
    /\ pc' = "waiting"
    /\ UNCHANGED <<fn, retries, delay, retries0, delay0, errs, starts, waits, now, outcome, arg, sent, replies>>
    /\ UNCHANGED notSvc

\* the timer of the backoff fires: return retryOperation(operation,
\* retries - 1, delay * 2), whose first statement invokes the operation
BackoffElapses ==
    /\ pc = "waiting"
    /\ \E lag \in 0..MaxLag :
          now' = waits[Len(waits)].from + waits[Len(waits)].ms + lag
    /\ retries' = retries - 1
    /\ delay' = NextDelay(delay)
    /\ starts' = Append(starts, now')
    /\ sent' = Append(sent, Payload(fn, arg))
    /\ pc' = "calling"
    /\ UNCHANGED <<fn, retries0, delay0, errs, waits, outcome, arg, replies>>
    /\ UNCHANGED notSvc

\* searchRelatedTopics, generateSpeech, transcribeUserAudio: the function
\* is entered and awaits ai.models.generateContent
DirectCall ==
    /\ pc = "start"
    /\ fn \in DirectFns
    /\ pc' = "calling"
    /\ starts' = Append(starts, now)
    /\ sent' = Append(sent, Payload(fn, arg))
    /\ UNCHANGED <<fn, retries, delay, retries0, delay0, errs, waits, now, outcome, arg, replies>>
    /\ UNCHANGED notSvc

\* ... and the reply arrives: the rest of the try block, or the catch
DirectSettles ==
    /\ pc = "calling"
    /\ fn \in DirectFns
    /\ \E reply \in RemoteReplies(fn) :
          /\ errs' = IF reply.kind = "error" THEN Append(errs, reply.err) ELSE errs
          /\ replies' = Append(replies, reply)
          /\ outcome' = Direct(fn, reply)
          /\ pc' = IF Direct(fn, reply).kind = "value" THEN "returned" ELSE "raised"
    /\ UNCHANGED <<fn, retries, delay, retries0, delay0, starts, waits, now, arg, sent>>
    /\ UNCHANGED notSvc


---------------------------------------------------------------------------
(* SpecChat: ChatView.handleSubmit and sendChatMessage *)

PdfSeedText ==
    <<"H","e","r","e"," ","i","s"," ","t","h","e"," ","r","e","s","e","a","r","c","h"," ","p","a","p","e","r"," ","t","o"," ","r","e","f","e","r","e","n","c","e",":">>

UrlSeedPrefix ==
    <<"H","e","r","e"," ","i","s"," ","t","h","e"," ","U","R","L"," ","o","f"," ","t","h","e"," ","r","e","s","e","a","r","c","h"," ","p","a","p","e","r"," ","t","o"," ","r","e","f","e","r","e","n","c","e",":"," ">>

TextSeedPrefix ==
    <<"H","e","r","e"," ","i","s"," ","t","h","e"," ","t","e","x","t"," ","o","f"," ","t","h","e"," ","r","e","s","e","a","r","c","h"," ","p","a","p","e","r"," ","t","o"," ","r","e","f","e","r","e","n","c","e",":","\n","\n">>

AckText ==
    <<"I"," ","h","a","v","e"," ","r","e","a","d"," ","t","h","e"," ","p","a","p","e","r","."," ","H","o","w"," ","c","a","n"," ","I"," ","h","e","l","p"," ","y","o","u","?">>

NoChatResponse ==
    <<"I"," ","c","o","u","l","d","n","'","t"," ","g","e","n","e","r","a","t","e"," ","a"," ","r","e","s","p","o","n","s","e",".">>

ChatApology ==
    <<"S","o","r","r","y",","," ","I"," ","e","n","c","o","u","n","t","e","r","e","d"," ","a","n"," ","e","r","r","o","r"," ","p","r","o","c","e","s","s","i","n","g"," ","y","o","u","r"," ","r","e","q","u","e","s","t",".">>

SomethingWrong ==
    <<"S","o","r","r","y",","," ","s","o","m","e","t","h","i","n","g"," ","w","e","n","t"," ","w","r","o","n","g",".">>

Greeting ==
    <<"H","e","l","l","o","!"," ","I","'","v","e"," ","a","n","a","l","y","z","e","d"," ","t","h","e"," ","p","a","p","e","r","."," ","W","h","a","t"," ","w","o","u","l","d"," ","y","o","u"," ","l","i","k","e"," ","t","o"," ","k","n","o","w","?">>

\* context.content.substring(0, 30000)
ChatTextLimit == 30000

\* first reading of Date.now() in the life of a chat view
ClockStart == 1000

DigitChar(d) ==
    <<"0","1","2","3","4","5","6","7","8","9">>[d + 1]

\* Number.prototype.toString of a non-negative integer
RECURSIVE ToString(_)
ToString(n) ==
    IF n < 10 THEN <<DigitChar(n)>> ELSE ToString(n \div 10) \o <<DigitChar(n % 10)>>

Contexts ==
    { [type |-> "pdf", content |-> <<"J","V","B","E">>],
      [type |-> "url", content |-> <<"h","t","t","p",":","/","/","x">>],
      [type |-> "text", content |-> <<"a"," ","p","a","p","e","r">>] }

NoContext ==
    [type |-> "none", content |-> <<>>]

Turn(role, text) ==
    [role |-> role, parts |-> << [text |-> text] >>]

\* contextMessage of sendChatMessage
ContextMessage(ctx) ==
    IF ctx.type = "pdf"
    THEN [role |-> "user",
          parts |-> << [text |-> PdfSeedText],
                       [inlineData |-> [mimeType |-> "application/pdf", data |-> ctx.content]] >>]
    ELSE IF ctx.type = "url"
    THEN Turn("user", UrlSeedPrefix \o ctx.content)
    ELSE Turn("user", TextSeedPrefix \o Substring0(ctx.content, ChatTextLimit))

FullHistorySeedAtStartOnly(contextMessage, history) ==
    IF history = <<>> THEN <<contextMessage, Turn("model", AckText)>> ELSE history

FullHistorySeedLast(contextMessage, history) ==
    history \o <<contextMessage, Turn("model", AckText)>>

\* fullHistory of sendChatMessage
FullHistory(contextMessage, history) ==
    <<contextMessage, Turn("model", AckText)>> \o history

\* the request sendChatMessage issues: ai.chats.create({history: fullHistory})
\* and chat.sendMessage({message: newMessage})
ChatRequest(history, newMessage, ctx) ==
    [history |-> FullHistory(ContextMessage(ctx), history), message |-> newMessage]

ChatCatchRethrows(e) ==
    Raise(e)

\* catch (error) of sendChatMessage
ChatCatch(e) ==
    Value(ChatApology)

\* sendChatMessage, from the reply of chat.sendMessage on
SendChatMessage(reply) ==
    IF reply.kind = "error" THEN ChatCatch(reply.err)
    ELSE Value(IF reply.text # <<>> THEN reply.text ELSE NoChatResponse)

ChatMessage(id, role, text, isError) ==
    [id |-> id, role |-> role, text |-> text, isError |-> isError]

InputTexts ==
    { <<>>, <<" ">>, <<"w","h","y">>, <<" ","o","k"," ">> }

ChatReplies ==
    ErrorReplies \cup { Response(t, <<>>, <<>>) : t \in {<<>>, SomeText} }

AddMessageFirst(prev, msg) ==
    <<msg>> \o prev

\* the updater of setMessages: prev => [...prev, msg]
AddMessage(prev, msg) ==
    Append(prev, msg)

HistoryOfUsers(msgs) ==
    SelectSeq([i \in 1..Len(msgs) |-> Turn(msgs[i].role, msgs[i].text)],
              LAMBDA t : t.role = "user")

\* messages.map(m => ({role: m.role, parts: [{text: m.text}]}))
HistoryOf(msgs) ==
    [i \in 1..Len(msgs) |-> Turn(msgs[i].role, msgs[i].text)]

ChatIdle ==
    /\ context = NoContext
    /\ messages = <<>>
    /\ input = <<>>
    /\ isLoading = FALSE
    /\ clock = 0
    /\ outbound = <<>>

ChatInit ==
    /\ context \in Contexts
    /\ messages = << ChatMessage(<<"1">>, "model", Greeting, FALSE) >>
    /\ input = <<>>
    /\ isLoading = FALSE
    /\ clock = ClockStart
    /\ outbound = <<>>

\* time passes
Tick ==
    /\ clock < ClockStart + MaxClock
    /\ clock' = clock + 1
    /\ UNCHANGED <<context, messages, input, isLoading, outbound>>
    /\ UNCHANGED notChat

\* onChange of the chat input
SetInput ==
    /\ mounted
    /\ ~(isRecording \/ isTranscribing)
    /\ \E text \in InputTexts :
          /\ text # input
          /\ input' = text
    /\ UNCHANGED <<context, messages, isLoading, clock, outbound>>
    /\ UNCHANGED notChat

AcceptsWhileLoading(text, loading) ==
    Trim(text) # <<>>

\* the guard of handleSubmit: if (!input.trim() || isLoading) return
Accepts(text, loading) ==
    ~(Trim(text) = <<>> \/ loading)

\* handleSubmit up to its await: the user message is appended and
\* sendChatMessage issues its request
HandleSubmit ==
    /\ Accepts(input, isLoading)
    /\ Len(outbound) < MaxTurns
    /\ LET userMsg == ChatMessage(ToString(clock), "user", input, FALSE)
           history == HistoryOf(messages)
       IN  /\ messages' = AddMessage(messages, userMsg)
           /\ outbound' = Append(outbound,
                  [args |-> [history |-> history, newMessage |-> userMsg.text],
                   request |-> ChatRequest(history, userMsg.text, context),
                   reply |-> "pending",
                   result |-> NoOutcome,
                   userIdx |-> Len(messages) + 1,
                   botIdx |-> 0])
    /\ input' = <<>>
    /\ isLoading' = TRUE
    /\ UNCHANGED <<context, clock>>
    /\ UNCHANGED notChat

\* the reply of chat.sendMessage arrives: the rest of sendChatMessage and
\* the rest of handleSubmit (try, catch, finally)
ChatSettles ==
    /\ outbound # <<>>
    /\ outbound[Len(outbound)].reply = "pending"
    /\ \E reply \in ChatReplies :
          LET r == SendChatMessage(reply)
              botMsg == IF r.kind = "value"
                        THEN ChatMessage(ToString(clock + 1), "model", r.val, FALSE)
                        ELSE ChatMessage(ToString(clock), "model", SomethingWrong, TRUE)
          IN  /\ messages' = AddMessage(messages, botMsg)
              /\ outbound' = [outbound EXCEPT ![Len(outbound)] =
                     [@ EXCEPT !.reply = IF reply.kind = "error" THEN "failed" ELSE "ok",
                               !.result = r,
                               !.botIdx = Len(messages) + 1]]
    /\ isLoading' = FALSE
    /\ UNCHANGED <<context, input, clock>>
    /\ UNCHANGED notChat

---------------------------------------------------------------------------
(* SpecSearch: AnalysisDashboard.handleSearch and searchRelatedTopics *)

Queries ==
    { <<>>, <<" ">>, <<"a">>, <<"b"," ">> }

Null ==
    [null |-> TRUE]

SearchIdle ==
    /\ searchQuery = <<>>
    /\ searchResults = Null
    /\ isSearching = FALSE
    /\ searches = <<>>

\* onChange of the search input
SetSearchQuery ==
    /\ \E q \in Queries :
          /\ q # searchQuery
          /\ searchQuery' = q
    /\ UNCHANGED <<searchResults, isSearching, searches>>
    /\ UNCHANGED notSearch

\* handleSearch up to its await
SearchSubmitted ==
    /\ Trim(searchQuery) # <<>>
    /\ Len(searches) < MaxSearches
    /\ isSearching' = TRUE
    /\ searches' = Append(searches,
           [query |-> searchQuery,
            sent |-> SearchPrefix \o searchQuery,
            state |-> "pending",
            failed |-> FALSE,
            result |-> NoOutcome])
    /\ UNCHANGED <<searchQuery, searchResults>>
    /\ UNCHANGED notSearch

\* the Search button: disabled while isSearching (Button isLoading)
HandleSearchClick ==
    /\ ~isSearching
    /\ SearchSubmitted

\* Enter in the search input: onKeyDown calls handleSearch whatever isSearching
HandleSearchEnter ==
    SearchSubmitted

\* the reply of a pending search arrives: the rest of searchRelatedTopics
\* and the rest of handleSearch
SearchSettles ==
    \E i \in 1..Len(searches) : \E reply \in RemoteReplies("searchRelatedTopics") :
       /\ searches[i].state = "pending"
       /\ LET r == SearchRelatedTopics(reply)
          IN  /\ searches' = [searches EXCEPT ![i] =
                     [@ EXCEPT !.state = IF r.kind = "value" THEN "done" ELSE "aborted",
                               !.failed = (reply.kind = "error"),
                               !.result = r]]
              /\ IF r.kind = "value"
                 THEN /\ searchResults' = r.val
                      /\ isSearching' = FALSE
                 ELSE UNCHANGED <<searchResults, isSearching>>
       /\ UNCHANGED searchQuery
       /\ UNCHANGED notSearch

---------------------------------------------------------------------------
(* SpecApp: App.handleAnalyze, resetApp and the view routing *)

InvalidInput ==
    <<"I","n","v","a","l","i","d"," ","i","n","p","u","t">>

DataPrefix ==
    <<"d","a","t","a",":">>

Base64Marker ==
    <<";","b","a","s","e","6","4",",">>

PdfMime ==
    <<"a","p","p","l","i","c","a","t","i","o","n","/","p","d","f">>

\* a File is modelled by its MIME type and the base64 text of its bytes
File(type, base64) ==
    [kind |-> "file", type |-> type, base64 |-> base64]

Str(text) ==
    [kind |-> "string", text |-> text]

\* reader.readAsDataURL(file): reader.result
DataUrl(file) ==
    DataPrefix \o file.type \o Base64Marker \o file.base64

\* index of the first c in s from position i on, or Len(s) + 1
RECURSIVE IndexFrom(_, _, _)
IndexFrom(s, c, i) ==
    IF i > Len(s) \/ s[i] = c THEN i ELSE IndexFrom(s, c, i + 1)

\* s.split(',')[1] of a string with at least one comma
SplitComma1(s) ==
    LET i == IndexFrom(s, ",", 1)
        j == IndexFrom(s, ",", i + 1)
    IN  SubSeq(s, i + 1, j - 1)

\* fileToGenerativePart
FileToGenerativePart(file) ==
    SplitComma1(DataUrl(file))

Payloads ==
    { File(PdfMime, <<"J","V","B","E">>), File(PdfMime, <<>>),
      Str(<<"h","t","t","p",":","/","/","x">>), Str(<<"a"," ","p","a","p","e","r">>) }

InputTypes ==
    {"pdf", "text", "url"}

InputKindUnchecked(type, content) ==
    IF type = "pdf" /\ content.kind = "file" THEN "pdf"
    ELSE IF type = "url" THEN "url"
    ELSE IF type = "text" THEN "text"
    ELSE "invalid"

\* the if / else if chain of handleAnalyze: which branch is taken
InputKind(type, content) ==
    IF type = "pdf" /\ content.kind = "file" THEN "pdf"
    ELSE IF type = "url" /\ content.kind = "string" THEN "url"
    ELSE IF type = "text" /\ content.kind = "string" THEN "text"
    ELSE "invalid"

\* the content of a context built from a payload that is not read as a file
ContentOf(content) ==
    IF content.kind = "string" THEN content.text ELSE content

\* what analyzeDocument can give its caller (see Spec)
AnalyzeOutcomes ==
    { Value([json |-> JsonObject]), Value([json |-> JsonNumber500]),
      Raise(PlainError(NoResponseGenerated)) } \cup { Raise(e) : e \in ErrorValues }

StoredResultOnFailure(prev, o) ==
    IF o.kind = "value" THEN o.val ELSE [json |-> <<>>]

\* analysisResult after the try block of handleAnalyze: setAnalysisResult
\* runs only when analyzeDocument returned
StoredResult(prev, o) ==
    IF o.kind = "value" THEN o.val ELSE prev

\* the view routing of App
View ==
    IF isProcessing THEN "processing"
    ELSE IF analysisResult # Null /\ documentContext # Null THEN "dashboard"
    ELSE "landing"

AppIdle ==
    /\ isProcessing = FALSE
    /\ analysisResult = Null
    /\ documentContext = Null
    /\ appPc = "idle"
    /\ appLog = <<>>

AppInit ==
    AppIdle

Call(type, content, status) ==
    [type |-> type, content |-> content, status |-> status,
     stored |-> <<>>, requests |-> 0, caught |-> NoOutcome, result |-> Null]

\* handleAnalyze up to its first await, or to its end when the input is
\* invalid (the throw, the catch and the finally run in the same step)
HandleAnalyze ==
    /\ View = "landing"
    /\ appPc = "idle"
    /\ Len(appLog) < MaxAnalyses
    /\ \E type \in InputTypes : \E content \in Payloads :
          LET kind == InputKind(type, content)
          IN  IF kind = "pdf"
              THEN /\ appPc' = "reading"
                   /\ isProcessing' = TRUE
                   /\ appLog' = Append(appLog, Call(type, content, "reading"))
                   /\ UNCHANGED documentContext
              ELSE IF kind = "invalid"
              THEN /\ appPc' = "idle"
                   /\ isProcessing' = FALSE
                   /\ appLog' = Append(appLog,
                          [Call(type, content, "invalid") EXCEPT
                              !.caught = Raise(PlainError(InvalidInput))])
                   /\ UNCHANGED documentContext
              ELSE LET ctx == [type |-> kind, content |-> ContentOf(content)]
                   IN  /\ appPc' = "analyzing"
                       /\ isProcessing' = TRUE
                       /\ documentContext' = ctx
                       /\ appLog' = Append(appLog,
                              [Call(type, content, "analyzing") EXCEPT
                                  !.stored = <<ctx>>, !.requests = 1])
    /\ UNCHANGED analysisResult
    /\ UNCHANGED notApp

\* fileToGenerativePart resolves: the context is stored and analyzeDocument
\* is called
FileRead ==
    /\ appPc = "reading"
    /\ LET call == appLog[Len(appLog)]
           ctx == [type |-> "pdf", content |-> FileToGenerativePart(call.content)]
       IN  /\ documentContext' = ctx
           /\ appLog' = [appLog EXCEPT ![Len(appLog)] =
                  [@ EXCEPT !.status = "analyzing", !.stored = <<ctx>>, !.requests = 1]]
    /\ appPc' = "analyzing"
    /\ UNCHANGED <<isProcessing, analysisResult>>
    /\ UNCHANGED notApp

\* reader.onerror: fileToGenerativePart rejects; catch and finally
FileReadFails ==
    /\ appPc = "reading"
    /\ appLog' = [appLog EXCEPT ![Len(appLog)] =
           [@ EXCEPT !.status = "readfail",
                     !.caught = Raise(Err(FALSE, 0, FALSE, <<>>))]]
    /\ appPc' = "idle"
    /\ isProcessing' = FALSE
    /\ UNCHANGED <<analysisResult, documentContext>>
    /\ UNCHANGED notApp

\* analyzeDocument settles: the rest of the try block, or the catch, and
\* the finally
AnalysisSettles ==
    /\ appPc = "analyzing"
    /\ \E o \in AnalyzeOutcomes :
          /\ analysisResult' = StoredResult(analysisResult, o)
          /\ appLog' = [appLog EXCEPT ![Len(appLog)] =
                 [@ EXCEPT !.status = IF o.kind = "value" THEN "ok" ELSE "failed",
                           !.caught = IF o.kind = "value" THEN NoOutcome ELSE o,
                           !.result = IF o.kind = "value" THEN o.val ELSE Null]]
    /\ appPc' = "idle"
    /\ isProcessing' = FALSE
    /\ UNCHANGED documentContext
    /\ UNCHANGED notApp

\* resetApp: onBack of the dashboard
ResetApp ==
    /\ View = "dashboard"
    /\ analysisResult' = Null
    /\ documentContext' = Null
    /\ UNCHANGED <<isProcessing, appPc, appLog>>
    /\ UNCHANGED notApp

---------------------------------------------------------------------------
(* SpecVoice: the voice input of ChatView *)

CouldNotUnderstand ==
    <<"C","o","u","l","d"," ","n","o","t"," ","u","n","d","e","r","s","t","a","n","d"," ","a","u","d","i","o",".">>

TranscriptionFailed ==
    <<"T","r","a","n","s","c","r","i","p","t","i","o","n"," ","f","a","i","l","e","d",".">>

MicrophoneDeniedNotice ==
    <<"M","i","c","r","o","p","h","o","n","e"," ","a","c","c","e","s","s"," ","d","e","n","i","e","d",".">>

\* toast when no toast is shown (null); no toast has the empty message
NoToast ==
    <<>>

\* one handleStartRecording invocation: where it is ("pending", "denied",
\* "recording", "stopping", "flushed", "transcribing", "done"), its stream
\* ("none", "open", "released"), the non-empty chunks its recorder
\* delivered, the chunks of the blob and what its onstop handler did
Session(state) ==
    [state |-> state, stream |-> "none", delivered |-> <<>>, blob |-> <<>>,
     outcome |-> NoOutcome,
     inputBefore |-> <<>>, inputAfter |-> <<>>, notice |-> NoToast, shown |-> FALSE]

\* a state setter of a component that may be unmounted: no effect then
SetState(old, new) ==
    IF mounted THEN new ELSE old

\* prev ? prev + ' ' + text : text
Appended(prev, text) ==
    IF prev # <<>> THEN prev \o <<" ">> \o text ELSE text

\* the replies to the remote call of transcribeUserAudio; onstop looks at
\* no field of a raised error, so one error stands for all of them
TranscriptionReplies ==
    { r \in RemoteReplies("transcribeUserAudio") :
         r.kind = "error" => r.err = ApiError(500, MsgUnavailable) }

VoiceFresh ==
    /\ isRecording = FALSE
    /\ isTranscribing = FALSE
    /\ toast = NoToast
    /\ mediaRecorderRef = 0
    /\ audioChunksRef = <<>>
    /\ sessions = <<>>

VoiceIdle ==
    /\ mounted = FALSE
    /\ VoiceFresh

VoiceInit ==
    /\ mounted = TRUE
    /\ VoiceFresh

\* toggleRecording while not recording: handleStartRecording up to its await
StartRecordingClick ==
    /\ mounted
    /\ ~isTranscribing
    /\ ~isRecording
    /\ Len(sessions) < MaxSessions
    /\ sessions' = Append(sessions, Session("pending"))
    /\ UNCHANGED <<mounted, isRecording, isTranscribing, toast, mediaRecorderRef,
                   audioChunksRef, input>>
    /\ UNCHANGED notVoice

\* getUserMedia resolves: the rest of the try block of handleStartRecording
MicrophoneGranted ==
    /\ \E i \in 1..Len(sessions) :
          /\ sessions[i].state = "pending"
          /\ sessions' = [sessions EXCEPT ![i] =
                 [@ EXCEPT !.state = "recording", !.stream = "open"]]
          /\ mediaRecorderRef' = i
    /\ audioChunksRef' = <<>>
    /\ isRecording' = SetState(isRecording, TRUE)
    /\ UNCHANGED <<mounted, isTranscribing, toast, input>>
    /\ UNCHANGED notVoice

\* getUserMedia rejects: the catch of handleStartRecording
MicrophoneDenied ==
    /\ \E i \in 1..Len(sessions) :
          /\ sessions[i].state = "pending"
          /\ sessions' = [sessions EXCEPT ![i] = [@ EXCEPT !.state = "denied"]]
    /\ toast' = SetState(toast, MicrophoneDeniedNotice)
    /\ UNCHANGED <<mounted, isRecording, isTranscribing, mediaRecorderRef,
                   audioChunksRef, input>>
    /\ UNCHANGED notVoice

\* toggleRecording while recording: handleStopRecording
StopRecordingClick ==
    /\ mounted
    /\ ~isTranscribing
    /\ isRecording
    /\ IF mediaRecorderRef # 0
       THEN /\ sessions' = [sessions EXCEPT ![mediaRecorderRef] =
                   [@ EXCEPT !.state = IF @ = "recording" THEN "stopping" ELSE @]]
            /\ isRecording' = FALSE
       ELSE UNCHANGED <<sessions, isRecording>>
    /\ UNCHANGED <<mounted, isTranscribing, toast, mediaRecorderRef, audioChunksRef, input>>
    /\ UNCHANGED notVoice

\* the dataavailable event of a stopped recorder: ondataavailable
DataAvailable ==
    /\ \E i \in 1..Len(sessions) :
          /\ sessions[i].state = "stopping"
          /\ \E size \in {0, 1} :
                /\ audioChunksRef' = IF size > 0 THEN Append(audioChunksRef, i)
                                      ELSE audioChunksRef
                /\ sessions' = [sessions EXCEPT ![i] =
                       [@ EXCEPT !.state = "flushed",
                                 !.delivered = IF size > 0 THEN <<i>> ELSE <<>>]]
    /\ UNCHANGED <<mounted, isRecording, isTranscribing, toast, mediaRecorderRef, input>>
    /\ UNCHANGED notVoice

\* the stop event of a recorder: onstop up to its await
RecorderStopped ==
    /\ \E i \in 1..Len(sessions) :
          /\ sessions[i].state = "flushed"
          /\ sessions' = [sessions EXCEPT ![i] =
                 [@ EXCEPT !.state = "transcribing", !.blob = audioChunksRef]]
    /\ isTranscribing' = SetState(isTranscribing, TRUE)
    /\ UNCHANGED <<mounted, isRecording, toast, mediaRecorderRef, audioChunksRef, input>>
    /\ UNCHANGED notVoice

\* transcribeUserAudio settles: the rest of onstop (try, catch, finally)
TranscriptionSettles ==
    /\ \E i \in 1..Len(sessions) :
          /\ sessions[i].state = "transcribing"
          /\ \E reply \in TranscriptionReplies :
                LET o == TranscribeUserAudio(reply)
                    newInput == IF o.kind = "value" /\ o.val # <<>>
                                THEN SetState(input, Appended(input, o.val))
                                ELSE input
                    notice == IF o.kind = "error" THEN TranscriptionFailed
                              ELSE IF o.val # <<>> THEN NoToast
                              ELSE CouldNotUnderstand
                IN  /\ input' = newInput
                    /\ toast' = IF notice = NoToast THEN toast ELSE SetState(toast, notice)
                    /\ sessions' = [sessions EXCEPT ![i] =
                           [@ EXCEPT !.state = "done", !.stream = "released",
                                     !.outcome = o, !.inputBefore = input,
                                     !.inputAfter = newInput, !.notice = notice,
                                     !.shown = mounted]]
    /\ isTranscribing' = SetState(isTranscribing, FALSE)
    /\ UNCHANGED <<mounted, isRecording, mediaRecorderRef, audioChunksRef>>
    /\ UNCHANGED <<context, messages, isLoading, clock, outbound>>
    /\ UNCHANGED <<svcVars, searchVars, appVars, playVars, frameVars>>

\* Toast.onClose
DismissToast ==
    /\ mounted
    /\ toast # NoToast
    /\ toast' = NoToast
    /\ UNCHANGED <<mounted, isRecording, isTranscribing, mediaRecorderRef,
                   audioChunksRef, sessions, input>>
    /\ UNCHANGED notVoice

---------------------------------------------------------------------------
(* SpecPlay: speech playback of the chat messages and of the summary *)

CouldNotPlay ==
    <<"C","o","u","l","d"," ","n","o","t"," ","p","l","a","y"," ","a","u","d","i","o",".">>

GeneratingSummary ==
    <<"G","e","n","e","r","a","t","i","n","g"," ","a","u","d","i","o"," ","s","u","m","m","a","r","y",".",".",".">>

PlayingSummary ==
    <<"P","l","a","y","i","n","g"," ","s","u","m","m","a","r","y"," ","a","u","d","i","o">>

FailedSpeech ==
    <<"F","a","i","l","e","d"," ","t","o"," ","g","e","n","e","r","a","t","e"," ","s","p","e","e","c","h">>

\* one generateSpeech call of a play handler and the source made from its
\* result: kind "message" or "summary"; state "pending" (synthesis under
\* way), "playing", "halted" (stop() called, ended event not yet handled),
\* "ended", "failed", "closed" (the source belongs to a closed AudioContext);
\* halted: the play whose sounding source the request stopped, or 0
Play(kind, msg) ==
    [kind |-> kind, msg |-> msg, state |-> "pending", halted |-> 0]

\* the play whose source sounds and is stopped by stop() on the source of
\* play i, or 0
Sounding(ps, i) ==
    IF i # 0 /\ ps[i].state = "playing" THEN i ELSE 0

\* the replies to the remote call of generateSpeech; the play handlers look
\* at no field of a raised error, so one error stands for all of them
SpeechReplies ==
    { r \in RemoteReplies("generateSpeech") :
         r.kind = "error" => r.err = ApiError(500, MsgUnavailable) }

\* the messages that show the speaker button
Playable ==
    { k \in 1..Len(messages) : messages[k].role = "model" /\ ~messages[k].isError }

\* source.stop() on the source of play i (0: no source)
Stopped(ps, i) ==
    IF i # 0 /\ ps[i].state = "playing"
    THEN [ps EXCEPT ![i] = [@ EXCEPT !.state = "halted"]]
    ELSE ps

\* audioContext.close(): the sources of the chat view fall silent
Closed(ps) ==
    [i \in 1..Len(ps) |->
        IF ps[i].kind = "message" /\ ps[i].state \in {"playing", "halted"}
        THEN [ps[i] EXCEPT !.state = "closed"]
        ELSE ps[i]]

\* playingMessageId when no message is playing (null); no message has
\* the empty id
NoMessage ==
    <<>>

PlayIdle ==
    /\ playingMessageId = NoMessage
    /\ currentSourceRef = 0
    /\ audioContextRef = "none"
    /\ isPlayingAudio = FALSE
    /\ summaryToast = NoToast
    /\ plays = <<>>

\* the chat tab is opened: the ChatView is mounted with its initial state
OpenChat ==
    /\ ~mounted
    /\ messages = <<>>
    /\ mounted' = TRUE
    /\ context' = [type |-> "url", content |-> <<"h","t","t","p",":","/","/","x">>]
    /\ messages' = << ChatMessage(<<"1">>, "model", Greeting, FALSE) >>
    /\ input' = <<>>
    /\ isLoading' = FALSE
    /\ clock' = ClockStart
    /\ outbound' = <<>>
    /\ UNCHANGED toast
    /\ UNCHANGED playVars
    /\ UNCHANGED notPlay

\* the speaker button of a message: handlePlayMessage up to its return or
\* to the await of generateSpeech
PlayMessageClick ==
    /\ mounted
    /\ \E k \in Playable :
          LET msgId == messages[k].id
          IN  IF playingMessageId = msgId
              THEN /\ plays' = Stopped(plays, currentSourceRef)
                   /\ currentSourceRef' = 0
                   /\ playingMessageId' = NoMessage
                   /\ UNCHANGED audioContextRef
              ELSE /\ Len(plays) < MaxPlays
                   /\ plays' = Append(Stopped(plays, currentSourceRef),
                          [Play("message", msgId) EXCEPT
                              !.halted = Sounding(plays, currentSourceRef)])
                   /\ currentSourceRef' = 0
                   /\ playingMessageId' = msgId
                   /\ audioContextRef' = "open"
    /\ UNCHANGED <<isPlayingAudio, summaryToast, mounted, toast>>
    /\ UNCHANGED chatVars
    /\ UNCHANGED notPlay

\* generateSpeech settles for a message: the rest of handlePlayMessage
MessageSpeechSettles ==
    /\ \E i \in 1..Len(plays) :
          /\ plays[i].kind = "message"
          /\ plays[i].state = "pending"
          /\ \E reply \in SpeechReplies :
                LET o == GenerateSpeech(reply)
                IN  IF o.kind = "value"
                    THEN /\ plays' = [plays EXCEPT ![i] = [@ EXCEPT !.state =
                                         IF audioContextRef = "closed" THEN "closed"
                                         ELSE "playing"]]
                         /\ currentSourceRef' = i
                         /\ UNCHANGED <<playingMessageId, toast>>
                    ELSE /\ plays' = [plays EXCEPT ![i] = [@ EXCEPT !.state = "failed"]]
                         /\ toast' = SetState(toast, CouldNotPlay)
                         /\ playingMessageId' = SetState(playingMessageId, NoMessage)
                         /\ UNCHANGED currentSourceRef
    /\ UNCHANGED <<audioContextRef, isPlayingAudio, summaryToast, mounted>>
    /\ UNCHANGED chatVars
    /\ UNCHANGED notPlay

\* the ended event of a source of the chat view, after it played to its end
\* or after stop(): source.onended
MessageSourceEnded ==
    /\ \E i \in 1..Len(plays) :
          /\ plays[i].kind = "message"
          /\ plays[i].state \in {"playing", "halted"}
          /\ plays' = [plays EXCEPT ![i] = [@ EXCEPT !.state = "ended"]]
    /\ playingMessageId' = SetState(playingMessageId, NoMessage)
    /\ currentSourceRef' = 0
    /\ UNCHANGED <<audioContextRef, isPlayingAudio, summaryToast, mounted, toast>>
    /\ UNCHANGED chatVars
    /\ UNCHANGED notPlay

\* the Listen button of the summary tab: handlePlayAudio up to its await
PlaySummaryClick ==
    /\ ~mounted
    /\ ~isPlayingAudio
    /\ Len(plays) < MaxPlays
    /\ isPlayingAudio' = TRUE
    /\ summaryToast' = GeneratingSummary
    /\ plays' = Append(plays, Play("summary", NoMessage))
    /\ UNCHANGED <<playingMessageId, currentSourceRef, audioContextRef, mounted, toast>>
    /\ UNCHANGED chatVars
    /\ UNCHANGED notPlay

\* generateSpeech settles for the summary: the rest of handlePlayAudio
SummarySpeechSettles ==
    /\ \E i \in 1..Len(plays) :
          /\ plays[i].kind = "summary"
          /\ plays[i].state = "pending"
          /\ \E reply \in SpeechReplies :
                LET o == GenerateSpeech(reply)
                IN  IF o.kind = "value"
                    THEN /\ plays' = [plays EXCEPT ![i] = [@ EXCEPT !.state = "playing"]]
                         /\ summaryToast' = PlayingSummary
                         /\ UNCHANGED isPlayingAudio
                    ELSE /\ plays' = [plays EXCEPT ![i] = [@ EXCEPT !.state = "failed"]]
                         /\ summaryToast' = FailedSpeech
                         /\ isPlayingAudio' = FALSE
    /\ UNCHANGED <<playingMessageId, currentSourceRef, audioContextRef, mounted, toast>>
    /\ UNCHANGED chatVars
    /\ UNCHANGED notPlay

\* the ended event of the source of the summary: source.onended
SummarySourceEnded ==
    /\ \E i \in 1..Len(plays) :
          /\ plays[i].kind = "summary"
          /\ plays[i].state = "playing"
          /\ plays' = [plays EXCEPT ![i] = [@ EXCEPT !.state = "ended"]]
    /\ isPlayingAudio' = FALSE
    /\ UNCHANGED <<playingMessageId, currentSourceRef, audioContextRef, summaryToast,
                   mounted, toast>>
    /\ UNCHANGED chatVars
    /\ UNCHANGED notPlay

\* the ChatView is unmounted (another tab, or back to the landing view):
\* the effect cleanup stops the current source and closes the AudioContext;
\* it touches neither the recorder nor the stream
ChatViewUnmounts ==
    /\ mounted
    /\ mounted' = FALSE
    /\ plays' = IF audioContextRef # "none"
                THEN Closed(Stopped(plays, currentSourceRef))
                ELSE Stopped(plays, currentSourceRef)
    /\ audioContextRef' = IF audioContextRef # "none" THEN "closed" ELSE audioContextRef
    /\ UNCHANGED <<playingMessageId, currentSourceRef, isPlayingAudio, summaryToast, toast>>
    /\ UNCHANGED chatVars
    /\ UNCHANGED notPlay

---------------------------------------------------------------------------
(* SpecFraming: the document in the requests of analyzeDocument and of    *)
(* sendChatMessage                                                        *)

AnalyzeUrlPrefix ==
    <<"P","l","e","a","s","e"," ","r","e","a","d"," ","a","n","d"," ","a","n","a","l","y","z","e"," ","t","h","e"," ","r","e","s","e","a","r","c","h"," ","p","a","p","e","r"," ","a","t"," ","t","h","i","s"," ","U","R","L",":"," ">>

\* ComprehensionLevel
Levels ==
    { <<"H","i","g","h"," ","S","c","h","o","o","l">>,
      <<"U","n","d","e","r","g","r","a","d","u","a","t","e">>,
      <<"G","r","a","d","u","a","t","e">> }

\* the prompt of analyzeDocument, cut down to the line that varies
Prompt(level) ==
    <<"T","a","r","g","e","t"," ","A","u","d","i","e","n","c","e"," ","L","e","v","e","l",":"," ">> \o level \o <<".">>

\* parts of the analyzeDocument request
AnalysisParts(ctx, level) ==
    IF ctx.type = "pdf"
    THEN << [inlineData |-> [mimeType |-> "application/pdf", data |-> ctx.content]],
            [text |-> Prompt(level)] >>
    ELSE IF ctx.type = "url"
    THEN << [text |-> AnalyzeUrlPrefix \o ctx.content], [text |-> Prompt(level)] >>
    ELSE << [text |-> ctx.content], [text |-> Prompt(level)] >>

\* pasted texts around the limit of the chat seed
LongTexts ==
    { TextOfLength(n) : n \in {0, 2, ChatTextLimit - 1, ChatTextLimit} \cup
                              { ChatTextLimit + k : k \in 1..MaxExtra } }

FramingContexts ==
    Contexts \cup { [type |-> "text", content |-> c] : c \in LongTexts }
             \cup { [type |-> "pdf", content |-> <<>>],
                    [type |-> "url", content |-> <<"x">>] }

\* the transcripts a chat request is made from
CallerHistories ==
    { << Turn("model", Greeting) >>,
      << Turn("model", Greeting), Turn("user", <<"w","h","y">>), Turn("model", SomeText) >> }

FrameIdle ==
    /\ docContext = NoContext
    /\ analysisParts = <<>>
    /\ chatHistory = <<>>

FrameInit ==
    /\ docContext \in FramingContexts
    /\ analysisParts = <<>>
    /\ chatHistory = <<>>

\* analyzeDocument builds its request from the context
AnalysisRequestBuilt ==
    /\ analysisParts = <<>>
    /\ \E level \in Levels : analysisParts' = AnalysisParts(docContext, level)
    /\ UNCHANGED <<docContext, chatHistory>>
    /\ UNCHANGED notFrame

\* sendChatMessage builds its request from the same context
ChatRequestBuilt ==
    /\ chatHistory = <<>>
    /\ \E history \in CallerHistories :
          chatHistory' = ChatRequest(history, <<"w","h","y">>, docContext).history
    /\ UNCHANGED <<docContext, analysisParts>>
    /\ UNCHANGED notFrame

---------------------------------------------------------------------------
(* The specifications *)

Init ==
    SvcInit /\ ChatIdle /\ SearchIdle /\ AppIdle /\ VoiceIdle /\ PlayIdle /\ FrameIdle

Next ==
    \/ RetryOperation
    \/ OperationResolves
    \/ OperationRejects
    \/ BackoffElapses
    \/ DirectCall
    \/ DirectSettles

Spec ==
    Init /\ [][Next]_vars

\* a service call whose every invocation of the remote operation resolves
\* or rejects and whose every backoff timer fires
SpecFair ==
    /\ Init
    /\ [][Next]_vars
    /\ WF_vars(OperationResolves \/ OperationRejects)
    /\ WF_vars(BackoffElapses)

InitChat ==
    SvcIdle /\ ChatInit /\ SearchIdle /\ AppIdle /\ VoiceInit /\ PlayIdle /\ FrameIdle

NextChat ==
    \/ Tick
    \/ SetInput
    \/ HandleSubmit
    \/ ChatSettles

SpecChat ==
    InitChat /\ [][NextChat]_vars

\* the chat view of one document, when every remote call returns or fails
InitChatFair ==
    InitChat /\ context.type = "text"

SpecChatFair ==
    InitChatFair /\ [][NextChat]_vars /\ WF_vars(ChatSettles)

InitSearch ==
    SvcIdle /\ ChatIdle /\ SearchIdle /\ AppIdle /\ VoiceIdle /\ PlayIdle /\ FrameIdle

NextSearch ==
    \/ SetSearchQuery
    \/ HandleSearchClick
    \/ HandleSearchEnter
    \/ SearchSettles

SpecSearch ==
    InitSearch /\ [][NextSearch]_vars

InitApp ==
    SvcIdle /\ ChatIdle /\ SearchIdle /\ AppInit /\ VoiceIdle /\ PlayIdle /\ FrameIdle

NextApp ==
    \/ HandleAnalyze
    \/ FileRead
    \/ FileReadFails
    \/ AnalysisSettles
    \/ ResetApp

SpecApp ==
    InitApp /\ [][NextApp]_vars

InitVoice ==
    /\ SvcIdle /\ ChatInit /\ SearchIdle /\ AppIdle /\ VoiceInit /\ PlayIdle /\ FrameIdle
    /\ context.type = "url"

NextVoice ==
    \/ StartRecordingClick
    \/ MicrophoneGranted
    \/ MicrophoneDenied
    \/ StopRecordingClick
    \/ DataAvailable
    \/ RecorderStopped
    \/ TranscriptionSettles
    \/ DismissToast
    \/ ChatViewUnmounts

SpecVoice ==
    InitVoice /\ [][NextVoice]_vars

InitPlay ==
    SvcIdle /\ ChatIdle /\ SearchIdle /\ AppIdle /\ VoiceIdle /\ PlayIdle /\ FrameIdle

NextPlay ==
    \/ OpenChat
    \/ PlayMessageClick
    \/ MessageSpeechSettles
    \/ MessageSourceEnded
    \/ PlaySummaryClick
    \/ SummarySpeechSettles
    \/ SummarySourceEnded
    \/ ChatViewUnmounts

SpecPlay ==
    InitPlay /\ [][NextPlay]_vars

InitFraming ==
    SvcIdle /\ ChatIdle /\ SearchIdle /\ AppIdle /\ VoiceIdle /\ PlayIdle /\ FrameInit

NextFraming ==
    \/ AnalysisRequestBuilt
    \/ ChatRequestBuilt

SpecFraming ==
    InitFraming /\ [][NextFraming]_vars


---------------------------------------------------------------------------
(* Properties of the Retry Policy (Spec) *)

\* a failure the specification calls transient: status 500 or 503, or a
\* message carrying '500' or 'Internal error'
TransientClassified(e) ==
    \/ e.hasStatus /\ e.status \in {500, 503}
    \/ e.hasMessage /\ (Includes(e.message, Marker500) \/ Includes(e.message, MarkerInternal))

AllTransient ==
    \A k \in 1..Len(errs) : TransientClassified(errs[k])

\* C1: retryOperation with budget R invokes the wrapped operation at most
\* 1 + R times, and exactly 1 + R times when it ends with every attempt
\* having failed with a transient error.
AttemptsWithinBudget ==
    fn \in RetriedFns =>
        /\ Len(starts) <= 1 + retries0
        /\ (pc = "raised" /\ AllTransient) => Len(starts) = 1 + retries0

AttemptsWithinBudgetWitness ==
    /\ fn \in RetriedFns
    /\ pc = "raised"
    /\ AllTransient
    /\ retries0 = DefaultRetries
    /\ Len(starts) = 4

\* C2: a terminal failure on any attempt ends retryOperation at once: it is
\* the last invocation, no delay is waited for it, and that same error is
\* raised whatever budget remains.
TerminalFailureEndsAtOnce ==
    fn \in RetriedFns =>
        \A k \in 1..Len(errs) :
            ~TransientClassified(errs[k]) =>
                /\ k = Len(errs)
                /\ Len(starts) = k
                /\ Len(waits) = k - 1
                /\ pc = "raised"
                /\ outcome = [kind |-> "error", err |-> errs[k]]

TerminalFailureEndsAtOnceWitness ==
    /\ fn \in RetriedFns
    /\ pc = "raised"
    /\ Len(errs) = 2
    /\ ~TransientClassified(errs[2])
    /\ retries >= 1

\* C3: the wait before attempt k+1 is delay0 * 2^(k-1), attempt k+1 does not
\* start before that wait has elapsed, every failed attempt but the last is
\* followed by one wait and the last failed attempt by none.
BackoffDoubles ==
    fn \in RetriedFns =>
        /\ \A k \in 1..Len(waits) :
              /\ waits[k].ms = delay0 * Pow2(k - 1)
              /\ k < Len(starts) => starts[k + 1] >= waits[k].from + waits[k].ms
        /\ Len(starts) > 0 =>
              Len(waits) = Len(starts) - (IF pc = "waiting" THEN 0 ELSE 1)
        /\ pc = "raised" => Len(waits) = Len(errs) - 1

BackoffDoublesWitness ==
    /\ fn = "analyzeDocument"
    /\ pc = "raised"
    /\ Len(waits) = 3
    /\ waits[1].ms = 1000 /\ waits[2].ms = 2000 /\ waits[3].ms = 4000
    /\ Len(starts) = 4

\* C4: when all 1 + R attempts fail with transient errors, the error raised
\* to the caller is the error of the last attempt and no value is returned.
LastErrorRaised ==
    (fn \in RetriedFns /\ pc = "raised" /\ AllTransient /\ Len(errs) = 1 + retries0) =>
        /\ outcome.kind = "error"
        /\ outcome.err = errs[Len(errs)]

LastErrorRaisedWitness ==
    /\ fn \in RetriedFns
    /\ pc = "raised"
    /\ AllTransient
    /\ Len(errs) = 1 + retries0
    /\ retries0 >= 2
    /\ errs[1] # errs[Len(errs)]
    /\ outcome.err = errs[Len(errs)]

\* C5: every remote call of analyzeDocument, searchRelatedTopics,
\* generateSpeech and transcribeUserAudio passes through the Retry Policy:
\* a call whose first attempt fails with a transient error is retried after
\* a backoff wait before the function gives its outcome.
EveryRemoteCallRetried ==
    ( /\ fn \in {"analyzeDocument", "searchRelatedTopics", "generateSpeech", "transcribeUserAudio"}
      /\ pc \in {"returned", "raised"}
      /\ errs # <<>>
      /\ TransientClassified(errs[1]) )
    => (Len(starts) >= 2 /\ Len(waits) >= 1)

\* retryOperation has ended: it returned a value or threw
Ended ==
    pc \in {"returned", "raised"}

\* C26: provided every invocation of the operation returns or fails and
\* every backoff delay elapses, retryOperation ends for every budget R >= 0
\* and every sequence of outcomes; it ends with the first successful result
\* and makes no invocation after it, or with a terminal error, or, after
\* 1 + R failed invocations, with the error of the exhausted budget.
RetryOperationTerminates ==
    /\ (fn \in RetriedFns /\ pc \in {"calling", "waiting"}) ~> Ended
    /\ [][(fn \in RetriedFns /\ Ended) => (starts' = starts /\ Ended')]_vars
    /\ [](fn \in RetriedFns /\ pc = "returned" =>
            /\ outcome.kind = "value"
            /\ Len(errs) = Len(starts) - 1
            /\ Len(replies) = Len(starts)
            /\ outcome \in Operation(fn, replies[Len(replies)]))
    /\ [](fn \in RetriedFns /\ pc = "raised" =>
            /\ Len(errs) = Len(starts)
            /\ outcome = Raise(errs[Len(errs)])
            /\ \/ ~TransientClassified(errs[Len(errs)])
               \/ Len(starts) = 1 + retries0)

RetryOperationTerminatesWitness ==
    /\ fn = "retryOperation"
    /\ pc = "returned"
    /\ retries0 >= 2
    /\ Len(errs) = 2
    /\ Len(starts) = 3
    /\ outcome.kind = "value"

---------------------------------------------------------------------------
(* Properties of the service functions (Spec) *)

\* the grounding entries that carry both a title and a URI, in order
RECURSIVE TitledEntries(_)
TitledEntries(chunks) ==
    IF chunks = <<>> THEN <<>>
    ELSE LET c == Head(chunks)
         IN  (IF c.hasWeb /\ c.hasTitle /\ c.hasUri
              THEN << [hasTitle |-> TRUE, title |-> c.title, hasUri |-> TRUE, uri |-> c.uri] >>
              ELSE <<>>) \o TitledEntries(Tail(chunks))

\* C11: on a successful search the returned sources are exactly the
\* grounding entries that carry both a title and a URI, in the order of the
\* response; an entry missing its title or its URI is not part of the result.
SourcesAreTitledEntries ==
    (fn = "searchRelatedTopics" /\ pc = "returned" /\ replies[1].kind = "response") =>
        /\ outcome.val.sources = TitledEntries(replies[1].chunks)
        /\ \A k \in 1..Len(outcome.val.sources) :
              outcome.val.sources[k].hasTitle /\ outcome.val.sources[k].hasUri

\* C12: when the analysis response carries no text, or text that cannot be
\* decoded, analyzeDocument raises after a single invocation of the remote
\* operation: no retry, no backoff wait.
UnusablePayloadNotRetried ==
    ( /\ fn = "analyzeDocument"
      /\ replies # <<>>
      /\ replies[1].kind = "response"
      /\ (replies[1].text = <<>> \/ ~IsJSON(replies[1].text)) )
    => (pc = "raised" /\ Len(starts) = 1 /\ waits = <<>>)

\* C15: generateSpeech transmits the prefix of its input of length
\* min(length, 400): never more than 400 characters, and an input of 400
\* characters or fewer whole.
SpeechSendsAtMost400 ==
    fn = "generateSpeech" =>
        \A k \in 1..Len(sent) :
            /\ Len(sent[k]) <= 400
            /\ Len(sent[k]) = (IF Len(arg) < 400 THEN Len(arg) ELSE 400)
            /\ sent[k] = SubSeq(arg, 1, Len(sent[k]))
            /\ Len(arg) <= 400 => sent[k] = arg

SpeechSendsAtMost400Witness ==
    /\ fn = "generateSpeech"
    /\ Len(arg) = 401
    /\ Len(sent) = 1
    /\ Len(sent[1]) = 400
    /\ pc = "returned"

---------------------------------------------------------------------------
(* Properties of the chat (SpecChat) *)

\* the turn carries the document of ctx
CarriesDocument(turn, ctx) ==
    \E j \in 1..Len(turn.parts) :
        LET part == turn.parts[j]
        IN  IF ctx.type = "pdf"
            THEN "inlineData" \in DOMAIN part /\ part.inlineData.data = ctx.content
            ELSE "text" \in DOMAIN part /\ Includes(part.text, ctx.content)

UserMessageCount ==
    Cardinality({ j \in 1..Len(messages) : messages[j].role = "user" })

ChatFailureReturnsApology ==
    /\ Len(outbound) = UserMessageCount
    /\ \A i \in 1..Len(outbound) :
          outbound[i].reply = "failed" =>
              /\ outbound[i].result.kind = "value"
              /\ outbound[i].result.val = ChatApology

ChatFailureReturnsApologyWitness ==
    \E i \in 1..Len(outbound) :
        /\ outbound[i].reply = "failed"
        /\ outbound[i].result.kind = "value"
        /\ messages[outbound[i].botIdx].text = ChatApology

\* C9: after a chat turn whose remote call fails, the transcript has gained
\* one model message for that turn, this message is flagged as an error
\* (isError = true), and the view accepts submissions again.
FailedTurnFlagged ==
    \A i \in 1..Len(outbound) :
        outbound[i].reply = "failed" =>
            /\ outbound[i].botIdx = outbound[i].userIdx + 1
            /\ messages[outbound[i].botIdx].role = "model"
            /\ messages[outbound[i].botIdx].isError = TRUE
            /\ (i = Len(outbound) => ~isLoading)

\* C21: chat requests are issued in the order of the submissions (the i-th
\* request carries the i-th user message of the transcript), and the caller
\* history of each request is the transcript as it stood just before that
\* submission: every earlier message, in order, none missing or duplicated.
RequestsInSubmissionOrder ==
    /\ \A i \in 1..Len(outbound) :
          LET u == outbound[i].userIdx
          IN  /\ u <= Len(messages)
              /\ messages[u].role = "user"
              /\ Cardinality({ j \in 1..u : messages[j].role = "user" }) = i
              /\ outbound[i].args.newMessage = messages[u].text
              /\ outbound[i].args.history = [j \in 1..(u - 1) |->
                     Turn(messages[j].role, messages[j].text)]
    /\ \A i \in 1..Len(outbound) : \A k \in 1..Len(outbound) :
          i < k => /\ outbound[i].userIdx < outbound[k].userIdx
                   /\ outbound[i].reply # "pending"
                   /\ outbound[i].botIdx < outbound[k].userIdx

RequestsInSubmissionOrderWitness ==
    /\ Len(outbound) = 2
    /\ outbound[1].reply = "failed"
    /\ outbound[2].reply = "ok"
    /\ Len(outbound[2].args.history) = 3
    /\ outbound[2].args.history[2].role = "user"
    /\ outbound[2].args.history[3].parts = << [text |-> ChatApology] >>

\* C22: the transcript is append-only: a step that changes it adds one
\* message at the end and leaves the earlier messages as they were.
TranscriptAppendOnly ==
    [][ messages' # messages =>
           /\ Len(messages') = Len(messages) + 1
           /\ SubSeq(messages', 1, Len(messages)) = messages ]_vars

TranscriptAppendOnlyWitness ==
    /\ Len(messages) = 5
    /\ messages[1].text = Greeting
    /\ messages[4].role = "user"
    /\ messages[5].role = "model"

\* C23: the messages of the transcript have pairwise distinct ids.
DistinctMessageIds ==
    \A i \in 1..Len(messages) : \A j \in 1..Len(messages) :
        i # j => messages[i].id # messages[j].id

\* the roles alternate model, user, model, ... from the first message on
Alternates(msgs) ==
    \A k \in 1..Len(msgs) : msgs[k].role = IF k % 2 = 1 THEN "model" ELSE "user"

\* C27: an accepted submission (non-blank input, isLoading false) appends
\* its user message and sets isLoading; while isLoading is true the
\* transcript gains nothing but the one model message that comes with
\* isLoading returning to false, which happens whenever the remote call
\* returns or fails; so the transcript alternates model, user, model, ...
SubmissionsAlternate ==
    /\ [][ /\ Alternates(messages')
           /\ isLoading' = (Len(messages') % 2 = 0)
           /\ (~isLoading /\ isLoading') =>
                 /\ Trim(input) # <<>>
                 /\ messages' = Append(messages, ChatMessage(messages'[Len(messages')].id,
                                                             "user", input, FALSE))
           /\ (isLoading /\ isLoading') => messages' = messages
           /\ (isLoading /\ ~isLoading') =>
                 /\ Len(messages') = Len(messages) + 1
                 /\ SubSeq(messages', 1, Len(messages)) = messages
                 /\ messages'[Len(messages')].role = "model"
           /\ (~isLoading /\ ~isLoading') => messages' = messages ]_vars
    /\ (isLoading ~> ~isLoading)

SubmissionsAlternateWitness ==
    /\ Len(messages) = 5
    /\ ~isLoading
    /\ outbound[1].reply = "ok"
    /\ outbound[2].reply = "failed"
    /\ messages[2].text = <<" ","o","k"," ">>

---------------------------------------------------------------------------
(* Properties of the search (SpecSearch) *)

\* C10: searchRelatedTopics never raises: a search whose remote call failed
\* has returned the fixed unavailable result, no search handler is cut short,
\* and isSearching is cleared once no search is in flight.
SearchNeverRaises ==
    /\ \A i \in 1..Len(searches) :
          /\ searches[i].state # "aborted"
          /\ (searches[i].state = "done" /\ searches[i].failed) =>
                searches[i].result = [kind |-> "value",
                                      val |-> [text |-> SearchUnavailable, sources |-> <<>>]]
    /\ (\A i \in 1..Len(searches) : searches[i].state # "pending") => ~isSearching

SearchNeverRaisesWitness ==
    /\ \E i \in 1..Len(searches) : searches[i].state = "done" /\ searches[i].failed
    /\ \A i \in 1..Len(searches) : searches[i].state = "done"
    /\ searchResults = [text |-> SearchUnavailable, sources |-> <<>>]
    /\ ~isSearching

\* C29: once every submitted search has completed, the displayed result is
\* the result of the most recently submitted one; and isSearching is false
\* only when no search is in flight.
LatestSearchShown ==
    /\ (searches # <<>> /\ \A i \in 1..Len(searches) : searches[i].state = "done") =>
          searchResults = searches[Len(searches)].result.val
    /\ ~isSearching => \A i \in 1..Len(searches) : searches[i].state # "pending"

---------------------------------------------------------------------------
(* Properties of the App (SpecApp) *)

\* the discriminator disagrees with the runtime type of the payload
Mismatch(call) ==
    (call.type = "pdf") # (call.content.kind = "file")

\* C13: a handleAnalyze call whose discriminator disagrees with the payload
\* fails with Error("Invalid input"), issues no analyzeDocument call and
\* stores no DocumentContext; a matching call never fails that way, stores at
\* most one context, of the variant named by the discriminator (for a pdf
\* the base64 text after the comma of the data URL), and has stored exactly
\* one and issued one analyzeDocument call once the analysis is under way.
InvalidInputFailsEarly ==
    \A i \in 1..Len(appLog) :
        LET call == appLog[i]
        IN  /\ Mismatch(call) =>
                /\ call.status = "invalid"
                /\ call.caught = Raise(PlainError(InvalidInput))
                /\ call.requests = 0
                /\ call.stored = <<>>
            /\ ~Mismatch(call) =>
                /\ call.status # "invalid"
                /\ Len(call.stored) <= 1
                /\ call.requests = Len(call.stored)
                /\ call.status \in {"analyzing", "ok", "failed"} => Len(call.stored) = 1
                /\ \A k \in 1..Len(call.stored) :
                      /\ call.stored[k].type = call.type
                      /\ call.type = "pdf" => call.stored[k].content = call.content.base64
                      /\ call.type # "pdf" => call.stored[k].content = call.content.text

InvalidInputFailsEarlyWitness ==
    /\ Len(appLog) = 2
    /\ Mismatch(appLog[1])
    /\ appLog[1].status = "invalid"
    /\ appLog[2].type = "pdf"
    /\ appLog[2].content.kind = "file"
    /\ appLog[2].content.base64 # <<>>
    /\ appLog[2].status = "ok"

Failures ==
    {"failed", "readfail", "invalid"}

\* C14: once a handleAnalyze call has failed, no AnalysisResult is stored,
\* isProcessing is false again and the landing view is shown; and a stored
\* AnalysisResult is always the value returned to the latest call, which
\* succeeded.
FailedAnalysisStoresNothing ==
    /\ (appLog # <<>> /\ appLog[Len(appLog)].status \in Failures) =>
          /\ analysisResult = Null
          /\ isProcessing = FALSE
          /\ View = "landing"
    /\ analysisResult # Null =>
          /\ appLog # <<>>
          /\ appLog[Len(appLog)].status = "ok"
          /\ appLog[Len(appLog)].result = analysisResult

FailedAnalysisStoresNothingWitness ==
    /\ Len(appLog) = 2
    /\ appLog[1].status = "ok"
    /\ appLog[2].status = "failed"
    /\ appLog[2].caught.kind = "error"
    /\ documentContext # Null
    /\ View = "landing"

---------------------------------------------------------------------------
(* Properties of the voice input (SpecVoice) *)

\* the capture sessions whose microphone stream is open
OpenSessions ==
    { i \in 1..Len(sessions) : sessions[i].stream = "open" }

\* C17: at most one capture session (an open microphone stream with its
\* recorder) exists at any time in the chat view.
AtMostOneCaptureSession ==
    Cardinality(OpenSessions) <= 1

\* nothing is left to happen: the view is unmounted and no microphone
\* request, recorder event or transcription is pending
AtRest ==
    /\ ~mounted
    /\ \A i \in 1..Len(sessions) : sessions[i].state \in {"denied", "recording", "done"}

\* C18: every microphone stream that was opened is eventually released; in
\* particular, once the chat view is torn down and nothing is pending any
\* more, no stream is open.
StreamsReleasedAtRest ==
    AtRest => OpenSessions = {}

CaptureState ==
    IF isRecording /\ isTranscribing THEN "both"
    ELSE IF isRecording THEN "Recording"
    ELSE IF isTranscribing THEN "Transcribing"
    ELSE "Idle"

\* C19: isRecording and isTranscribing are never both true, and the capture
\* state changes only from Idle to Recording, from Recording to Transcribing
\* and from Transcribing to Idle.
CaptureTransitions ==
    [][ /\ CaptureState' # "both"
        /\ CaptureState' # CaptureState =>
              <<CaptureState, CaptureState'>> \in
                  { <<"Idle", "Recording">>, <<"Recording", "Transcribing">>,
                    <<"Transcribing", "Idle">> } ]_vars

\* C20: a transcription that returns an empty or whitespace-only string
\* (while the view is mounted) leaves the chat input unchanged and shows
\* the notice "Could not understand audio.".
BlankTranscriptionIgnored ==
    \A i \in 1..Len(sessions) :
        LET ses == sessions[i]
        IN  (/\ ses.state = "done"
             /\ ses.shown
             /\ ses.outcome.kind = "value"
             /\ Trim(ses.outcome.val) = <<>>) =>
                /\ ses.inputAfter = ses.inputBefore
                /\ ses.notice = CouldNotUnderstand

\* C30: the blob handed to transcribeUserAudio when a capture session stops
\* consists of exactly the non-empty chunks delivered by that session's
\* recorder, in delivery order.
BlobIsOwnChunks ==
    \A i \in 1..Len(sessions) :
        sessions[i].state \in {"transcribing", "done"} =>
            sessions[i].blob = sessions[i].delivered

---------------------------------------------------------------------------
(* Properties of the speech playback (SpecPlay) *)

\* the plays whose source is sounding
ActivePlaybacks ==
    { i \in 1..Len(plays) : plays[i].state = "playing" }

\* C16: at most one synthesized-speech playback, of a chat message or of
\* the summary, is active at any instant.
AtMostOnePlayback ==
    Cardinality(ActivePlaybacks) <= 1

\* a failed transcription has left the chat input as it was and shown the
\* failure notice
FailedTranscriptionKeepsState ==
    \A i \in 1..Len(sessions) :
        (sessions[i].state = "done" /\ sessions[i].outcome.kind = "error") =>
            /\ sessions[i].inputAfter = sessions[i].inputBefore
            /\ sessions[i].notice = TranscriptionFailed

\* a play request whose synthesis failed has not halted the playback that
\* was active when it was made
FailedSynthesisKeepsPlayback ==
    \A i \in 1..Len(plays) :
        (plays[i].kind = "message" /\ plays[i].state = "failed") => plays[i].halted = 0

\* C25: a failed speech synthesis or a failed transcription in the chat
\* view leaves the chat input and the playback that was active before the
\* failed operation as they were.
FailedOperationKeepsState ==
    FailedTranscriptionKeepsState /\ FailedSynthesisKeepsPlayback

\* C28: in the mounted chat view, whenever the source of a message is
\* playing, currentSourceRef refers to it and playingMessageId is the id of
\* its message.
PlayingSourceTracked ==
    \A i \in 1..Len(plays) :
        (mounted /\ plays[i].kind = "message" /\ plays[i].state = "playing") =>
            /\ currentSourceRef = i
            /\ playingMessageId = plays[i].msg

---------------------------------------------------------------------------
(* Properties of the document framing (SpecFraming) *)

\* what follows the prefix in a text that starts with it
After(prefix, text) ==
    SubSeq(text, Len(prefix) + 1, Len(text))

\* the document payload carried by the analysis request
DocumentInAnalysis ==
    IF docContext.type = "pdf" THEN analysisParts[1].inlineData.data
    ELSE IF docContext.type = "url" THEN After(AnalyzeUrlPrefix, analysisParts[1].text)
    ELSE analysisParts[1].text

\* the document payload carried by the seed user turn of the chat request
DocumentInSeed ==
    IF docContext.type = "pdf" THEN chatHistory[1].parts[2].inlineData.data
    ELSE IF docContext.type = "url" THEN After(UrlSeedPrefix, chatHistory[1].parts[1].text)
    ELSE After(TextSeedPrefix, chatHistory[1].parts[1].text)

\* C24: for one DocumentContext the seed user turn of the chat request
\* carries the same document payload as the analysis request: the same
\* base64 data, the same URI, the same whole text.
SameDocumentInBothRequests ==
    (analysisParts # <<>> /\ chatHistory # <<>>) =>
        /\ DocumentInAnalysis = docContext.content
        /\ DocumentInSeed = DocumentInAnalysis

=============================================================================
